---- MODULE Spec2Model ----
(***************************************************************************)
(* A model of the RunPod deployment utility for Ollama:                    *)
(*   src/src/deploy_pod.py          (CLI, GraphQL client, config builder)  *)
(*   src/src/runpod_rest_client.py  (REST client)                          *)
(*                                                                         *)
(* Python strings are TLA+ strings; they are taken apart character by      *)
(* character with Len, SubSeq and \o.  An optional value (None or a        *)
(* string) is a record [some, v].  A JSON value is a tagged record.        *)
(***************************************************************************)
EXTENDS Integers, Sequences, FiniteSets, TLC

VARIABLES
    args,            \* the argparse.Namespace of the run
    pc,              \* position of the process
    api_key,         \* main's local api_key
    fmt_answer,      \* answer typed at the "Continue anyway?" prompt
    confirm_answer,  \* answer typed at the "Proceed with deployment?" prompt
    net,             \* the network requests sent so far, oldest first
    verified,        \* what verify_api_key returned
    pod_config,      \* what create_pod_config returned
    pod,             \* what deploy_pod_multi_attempt returned
    exit_code,       \* the exit code of the process, once it has ended
    out,             \* the reports printed so far that the claims speak of
    last_resp,       \* the provider's answer to the latest request
    loaded_env       \* main's env_vars: how its call of load_env_file ended

vars == <<args, pc, api_key, fmt_answer, confirm_answer, net, verified,
          pod_config, pod, exit_code, out, last_resp, loaded_env>>

----------------------------------------------------------------------------
(* Bounds of the model *)

\* longest env file, in lines
MaxLines == 2

----------------------------------------------------------------------------
(* Python values *)

None == [some |-> FALSE, v |-> ""]
Some(s) == [some |-> TRUE, v |-> s]

\* truthiness of an Optional[str]: None and "" are falsy
Truthy(o) == o.some /\ o.v # ""

Ch(s, i) == SubSeq(s, i, i)

\* the characters str.strip() removes
Whitespace == {" ", "\t"}

RECURSIVE LStrip(_)
LStrip(s) ==
    IF s # "" /\ Ch(s, 1) \in Whitespace
    THEN LStrip(SubSeq(s, 2, Len(s)))
    ELSE s

RECURSIVE RStrip(_)
RStrip(s) ==
    IF s # "" /\ Ch(s, Len(s)) \in Whitespace
    THEN RStrip(SubSeq(s, 1, Len(s) - 1))
    ELSE s

\* str.strip()
Strip(s) == LStrip(RStrip(s))

\* str.startswith(p)
StartsWith(s, p) == Len(p) <= Len(s) /\ SubSeq(s, 1, Len(p)) = p

\* sub in s
Contains(s, sub) ==
    \E i \in 1..(Len(s) - Len(sub) + 1) : SubSeq(s, i, i + Len(sub) - 1) = sub

\* index of the first occurrence of the character c in s, 0 when there is none
IndexOf(s, c) ==
    IF Contains(s, c)
    THEN CHOOSE i \in 1..Len(s) :
            /\ Ch(s, i) = c
            /\ \A j \in 1..(i - 1) : Ch(s, j) # c
    ELSE 0

UpperCase == "ABCDEFGHIJKLMNOPQRSTUVWXYZ"
LowerCase == "abcdefghijklmnopqrstuvwxyz"

LowerCh(c) ==
    IF Contains(UpperCase, c) THEN Ch(LowerCase, IndexOf(UpperCase, c)) ELSE c

\* str.lower()
RECURSIVE Lower(_)
Lower(s) ==
    IF s = "" THEN "" ELSE LowerCh(Ch(s, 1)) \o Lower(SubSeq(s, 2, Len(s)))

Digits == "0123456789"

RECURSIVE NatToStr(_)
NatToStr(n) ==
    IF n < 10 THEN Ch(Digits, n + 1)
    ELSE NatToStr(n \div 10) \o Ch(Digits, (n % 10) + 1)

\* str(n) of an int
IntToStr(n) == IF n < 0 THEN "-" \o NatToStr(-n) ELSE NatToStr(n)

----------------------------------------------------------------------------
(* load_env_file *)

\* An env file: whether --env-file names one, whether the path exists, its
\* lines, and the number of the first line the loop does not get because
\* reading the file raises (0: the file is read to its end).  Reading raises
\* on bytes that do not decode, which may stand in a later line of the same
\* buffer, and on an I/O error; line 1 also stands for open() raising.

\* --env-file not given
NoFile == [given |-> FALSE, exists |-> FALSE, lines |-> <<>>, fails |-> 0]

\* a dict is the sequence of its (key, value) items in insertion order
DictHas(d, k) == \E i \in 1..Len(d) : d[i].key = k

DictValue(d, k) == d[CHOOSE i \in 1..Len(d) : d[i].key = k].value

\* a list in the place of the dict: every assignment adds an item
DictAppend(d, k, v) == Append(d, [key |-> k, value |-> v])

\* d[k] = v : a new key goes last, an old key keeps its place
DictSet(d, k, v) ==
    IF DictHas(d, k)
    THEN [i \in 1..Len(d) |-> IF d[i].key = k THEN [key |-> k, value |-> v] ELSE d[i]]
    ELSE Append(d, [key |-> k, value |-> v])

\* the body of the loop over the lines of the file
EnvLine(d, raw) ==
    LET line == Strip(raw) IN
    IF line = "" \/ StartsWith(line, "#") THEN d
    ELSE IF Contains(line, "=")
         THEN LET eq == IndexOf(line, "=") IN
              DictSet(d, Strip(SubSeq(line, 1, eq - 1)),
                         Strip(SubSeq(line, eq + 1, Len(line))))
         ELSE d

RECURSIVE EnvLines(_, _)
EnvLines(d, lines) ==
    IF lines = <<>> THEN d ELSE EnvLines(EnvLine(d, Head(lines)), Tail(lines))

\* the lines the loop gets before the file ends or reading raises
ReadLines(file) ==
    IF file.fails = 0 THEN file.lines ELSE SubSeq(file.lines, 1, file.fails - 1)

\* the dict load_env_file returns; an exception of the with block is caught
\* and what was collected before it is returned
LoadEnvFile(file) ==
    IF ~file.given \/ ~file.exists THEN <<>> ELSE EnvLines(<<>>, ReadLines(file))

\* load_env_file without its try and except
LoadEnvFileResultNoExcept(file) ==
    IF file.given /\ file.exists /\ file.fails # 0
    THEN [o |-> "raise", v |-> << >>, warning |-> FALSE]
    ELSE [o |-> "return", v |-> LoadEnvFile(file), warning |-> FALSE]

\* how a call of load_env_file ends: it returns a dict, with or without the
\* warning "Failed to fully parse env file"
LoadEnvFileResult(file) ==
    [o |-> "return", v |-> LoadEnvFile(file),
     warning |-> (file.given /\ file.exists /\ file.fails # 0)]

\* load_env_file not called yet
NotLoaded == [o |-> "none"]

----------------------------------------------------------------------------
(* create_pod_config *)

ReservedKeys ==
    {"OLLAMA_HOST", "INACTIVITY_TIMEOUT", "RUNPOD_API_KEY", "LOG_LEVEL", "PRELOAD_MODELS"}

\* the list with one of its entries lost
GpuExceptionsShort == {"A100", "V100"}

\* the GPU types that get no vendor prefix
GpuExceptions == {"A100", "A40", "V100"}

\* "Correct GPU type format if needed", the prefix tested without its space
NormalizeGpuNoSpace(g) ==
    IF Contains(g, "RTX 6000 Ada") /\ ~Contains(g, "Generation")
    THEN "NVIDIA RTX 6000 Ada Generation"
    ELSE IF ~StartsWith(g, "NVIDIA") /\ g \notin GpuExceptions
         THEN "NVIDIA " \o g
         ELSE g

\* "Correct GPU type format if needed"
NormalizeGpu(g) ==
    IF Contains(g, "RTX 6000 Ada") /\ ~Contains(g, "Generation")
    THEN "NVIDIA RTX 6000 Ada Generation"
    ELSE IF ~StartsWith(g, "NVIDIA ") /\ g \notin GpuExceptions
         THEN "NVIDIA " \o g
         ELSE g

\* "Start with required environment variables"
RequiredEnv(a) ==
    << [key |-> "OLLAMA_HOST",        value |-> a.ollama_host],
       [key |-> "INACTIVITY_TIMEOUT", value |-> IntToStr(a.timeout)],
       [key |-> "RUNPOD_API_KEY",     value |-> a.api_key.v],
       [key |-> "LOG_LEVEL",          value |-> a.log_level] >>

\* "Add preload models if specified"
PreloadEnv(a) ==
    IF Truthy(a.preload_models)
    THEN << [key |-> "PRELOAD_MODELS", value |-> a.preload_models.v] >>
    ELSE << >>

\* "Load additional environment variables from file if specified", every
\* item of the file appended as it is
FileEnvNoSkip(a) ==
    IF a.env_file.given THEN LoadEnvFile(a.env_file) ELSE << >>

\* "Load additional environment variables from file if specified",
\* "Skip variables we've already set"
FileEnv(a) ==
    IF a.env_file.given
    THEN SelectSeq(LoadEnvFile(a.env_file), LAMBDA e : e.key \notin ReservedKeys)
    ELSE << >>

CreatePodConfig(a) ==
    [ gpuCount           |-> 1,
      volumeInGb         |-> a.volume_size_gb,
      containerDiskInGb  |-> a.container_disk_size_gb,
      minVcpu            |-> a.min_vcpu,
      minMemoryInGb      |-> a.min_memory_gb,
      gpuTypeId          |-> NormalizeGpu(a.gpu_type),
      containerImageName |-> a.image,
      env                |-> RequiredEnv(a) \o PreloadEnv(a) \o FileEnv(a),
      ports              |-> "11434/http",
      volumeMountPath    |-> "/workspace",
      name               |-> a.name ]

\* RunPodRestClient.deploy_pod, "Convert env list to object (dictionary)"
RECURSIVE EnvDictFrom(_, _)
EnvDictFrom(d, env) ==
    IF env = << >> THEN d
    ELSE EnvDictFrom(DictSet(d, Head(env).key, Head(env).value), Tail(env))

EnvDict(env) == EnvDictFrom(<< >>, env)

\* no configuration built yet
NoConfig == [built |-> FALSE]

----------------------------------------------------------------------------
(* The command line *)

\* parse_arguments: the defaults of the flags
DefaultArgs ==
    [ api_key                |-> None,
      gpu_type               |-> "NVIDIA RTX A5000",
      name                   |-> "Ollama-Pod",
      timeout                |-> 60,
      container_disk_size_gb |-> 5,
      volume_size_gb         |-> 50,
      min_vcpu               |-> 2,
      min_memory_gb          |-> 15,
      image                  |-> "runpod/pytorch:latest",
      env_file               |-> NoFile,
      preload_models         |-> None,
      log_level              |-> "INFO",
      ollama_host            |-> "0.0.0.0" ]

----------------------------------------------------------------------------
(* Inputs of the checks *)

GpuPrefixes == {"", "NVIDIA ", "NVIDIA", "nvidia "}
GpuBodies   == {"", "A40", "A100", "V100", "H100", "RTX A5000",
                "RTX 6000 Ada", "RTX 6000 ada", "RTX6000 Ada"}
GpuSuffixes == {"", " Generation", " generation", " 48GB"}

GpuInputs == {p \o b \o s : p \in GpuPrefixes, b \in GpuBodies, s \in GpuSuffixes}

Timeouts == {-5, 0, 60, 120, 3600}

EnvLinePool ==
    { "OLLAMA_HOST=1.2.3.4", " INACTIVITY_TIMEOUT = 9 ", "RUNPOD_API_KEY=rpa_file",
      "LOG_LEVEL=DEBUG", "PRELOAD_MODELS=llama2", "ollama_host=lower",
      "FOO=bar", "FOO=a=b", "# OLLAMA_HOST=x", "", "novalue", "=x" }

File(lines) == [given |-> TRUE, exists |-> TRUE, lines |-> lines, fails |-> 0]

\* a file whose reading raises at line k
FailingFile(lines, k) == [given |-> TRUE, exists |-> TRUE, lines |-> lines, fails |-> k]

\* --env-file names a path that does not exist
MissingFile == [given |-> TRUE, exists |-> FALSE, lines |-> <<>>, fails |-> 0]

\* the files of at most MaxLines lines of the pool, read to their end or
\* failing at one of their lines
FilesOf(pool) ==
    LET contents == UNION {[1..n -> pool] : n \in 0..MaxLines}
    IN  {File(l) : l \in contents}
        \cup {FailingFile(x[1], x[2]) :
                 x \in {y \in contents \X (1..MaxLines) : y[2] <= Len(y[1])}}

EnvFiles == FilesOf(EnvLinePool)

\* the arguments create_pod_config is checked on: every GPU identifier and
\* timeout with no or an empty env file, and every env file with a fixed GPU
ConfigArgs ==
    {[DefaultArgs EXCEPT !.api_key = Some("rpa_test"), !.gpu_type = g,
                         !.timeout = t, !.env_file = f]
        : g \in GpuInputs, t \in Timeouts, f \in {NoFile, File(<<>>)}}
    \cup
    {[DefaultArgs EXCEPT !.api_key = Some("rpa_test"), !.gpu_type = "A40",
                         !.timeout = 120, !.env_file = f, !.preload_models = p,
                         !.log_level = "WARNING", !.ollama_host = "127.0.0.1"]
        : f \in EnvFiles \cup {MissingFile},
          p \in {None, Some(""), Some("mistral,llama2")}}

----------------------------------------------------------------------------
(* load_env_file on its own *)

LoadLinePool ==
    EnvLinePool \cup {"  # indented=1", "A = b = c ", "=", "\tTAB=1\t"}

LoadInit ==
    /\ args \in {[DefaultArgs EXCEPT !.env_file = f]
                    : f \in FilesOf(LoadLinePool) \cup {NoFile, MissingFile}}
    /\ pc = "load_env_file"
    /\ api_key = None
    /\ fmt_answer = None
    /\ confirm_answer = None
    /\ net = << >>
    /\ verified = "unknown"
    /\ pod_config = NoConfig
    /\ pod = [kind |-> "none"]
    /\ exit_code = -1
    /\ out = {}
    /\ last_resp = [kind |-> "none"]
    /\ loaded_env = NotLoaded

\* env_vars = load_env_file(args.env_file); an exception that leaves the call
\* ends the process with a traceback
LoadEnvFileCall ==
    /\ pc = "load_env_file"
    /\ loaded_env' = LoadEnvFileResult(args.env_file)
    /\ IF loaded_env'.o = "raise"
       THEN /\ pc' = "done"
            /\ exit_code' = 1
            /\ out' = out \cup {"traceback"}
       ELSE /\ pc' = "loaded"
            /\ out' = IF loaded_env'.warning THEN out \cup {"parse_warning"} ELSE out
            /\ UNCHANGED exit_code
    /\ UNCHANGED <<args, api_key, fmt_answer, confirm_answer, net, verified,
                   pod_config, pod, last_resp>>

LoadNext == LoadEnvFileCall

SpecLoad == LoadInit /\ [][LoadNext]_vars

----------------------------------------------------------------------------
(* create_pod_config on its own *)

NoResp == [kind |-> "none"]

ConfigInit ==
    /\ args \in ConfigArgs
    /\ pc = "create_pod_config"
    /\ api_key = None
    /\ fmt_answer = None
    /\ confirm_answer = None
    /\ net = << >>
    /\ verified = "unknown"
    /\ pod_config = NoConfig
    /\ pod = [kind |-> "none"]
    /\ exit_code = -1
    /\ out = {}
    /\ last_resp = NoResp
    /\ loaded_env = NotLoaded

CreatePodConfigCall ==
    /\ pc = "create_pod_config"
    /\ pod_config' = CreatePodConfig(args)
    /\ pc' = "config_built"
    /\ UNCHANGED <<loaded_env, args, api_key, fmt_answer, confirm_answer, net, verified,
                   pod, exit_code, out, last_resp>>

ConfigNext == CreatePodConfigCall

SpecConfig == ConfigInit /\ [][ConfigNext]_vars

----------------------------------------------------------------------------
(* JSON values and the provider's answers *)

JNull == [t |-> "null"]
JStr(x) == [t |-> "str", s |-> x]
JList(l) == [t |-> "list", l |-> l]
\* an object: f maps its keys to JSON values
JObj(f) == [t |-> "obj", f |-> f]
JEmptyObj == JObj([k \in {} |-> JNull])

\* a body that is no JSON; response.json() raises on it, a RequestException
\* subclass or a plain ValueError depending on the installed requests
JText(raises) == [t |-> "text", raises |-> raises]

IsObj(v) == v.t = "obj"

\* key in v, for a JSON object v
HasKey(v, k) == k \in DOMAIN v.f

\* Python truthiness of a decoded JSON value
JTruthy(v) ==
    CASE v.t = "null" -> FALSE
      [] v.t = "obj"  -> DOMAIN v.f # {}
      [] v.t = "list" -> v.l # << >>
      [] v.t = "str"  -> v.s # ""
      [] OTHER        -> FALSE

\* the request did not produce a response
Failure(exc) == [kind |-> "fail", exc |-> exc]

Answer(status, body) == [kind |-> "answer", status |-> status, body |-> body]

\* response.raise_for_status() raises for these
IsErrorStatus(status) == status >= 400 /\ status < 600

APIError == JList(<< JObj([message |-> JStr("Something went wrong")]) >>)

PodRecord ==
    JObj([id |-> JStr("abc123"), name |-> JStr("Ollama-Pod"), imageName |-> JStr("runpod/pytorch:latest")])

\* the bodies a deployment mutation named key may be answered with
DeployBodies(key) ==
    { JObj([errors |-> APIError]),
      JObj([errors |-> APIError, data |-> JObj([k \in {key} |-> JNull])]),
      JObj([data |-> JObj([k \in {key} |-> PodRecord])]),
      JObj([data |-> JObj([k \in {key} |-> JNull])]),
      JObj([data |-> JObj([k \in {key} |-> JEmptyObj])]),
      JObj([data |-> JEmptyObj]),
      JObj([data |-> JNull]),
      JEmptyObj,
      JNull,
      JList(<< >>),
      JText("RequestException"),
      JText("ValueError") }

DeployResponses(key) ==
    {Failure(e) : e \in {"ConnectionError", "Timeout"}}
    \cup {Answer(st, JText("RequestException")) : st \in {401, 500}}
    \cup {Answer(st, b) : st \in {200, 201}, b \in DeployBodies(key)}

UserRecord == JObj([id |-> JStr("user_1"), email |-> JStr("a@b.c")])

VerifyBodies ==
    { JObj([data |-> JObj([myself |-> UserRecord])]),
      JObj([data |-> JObj([myself |-> JNull])]),
      JObj([data |-> JObj([myself |-> JEmptyObj])]),
      JObj([data |-> JObj([myself |-> JStr("me")])]),
      JObj([data |-> JEmptyObj]),
      JObj([data |-> JNull]),
      JObj([errors |-> APIError]),
      JObj([errors |-> JList(<< >>)]),
      JObj([errors |-> APIError, data |-> JObj([myself |-> JNull])]),
      JEmptyObj,
      JNull,
      JList(<< >>),
      JText("RequestException"),
      JText("ValueError") }

VerifyResponses ==
    {Failure(e) : e \in {"ConnectionError", "Timeout"}}
    \cup {Answer(st, b) : st \in {200, 201, 204, 400, 401, 403, 404, 500, 503},
                          b \in VerifyBodies}

----------------------------------------------------------------------------
(* RunPodClient.verify_api_key and RunPodRestClient.verify_api_key *)

\* the GraphQL check with no look at the status code
GqlVerifyApiKeyAnyStatus(resp) ==
    IF resp.kind = "fail" THEN FALSE
    ELSE LET data == resp.body IN
         IF data.t # "obj" THEN FALSE
         ELSE IF HasKey(data, "errors") THEN FALSE
         ELSE IF /\ HasKey(data, "data")
                 /\ data.f.data.t = "obj"
                 /\ HasKey(data.f.data, "myself")
                 /\ JTruthy(data.f.data.f.myself)
              THEN data.f.data.f.myself.t = "obj"
              ELSE FALSE

\* the GraphQL check with the status test of raise_for_status
GqlVerifyApiKeyErrorStatus(resp) ==
    IF resp.kind = "fail" THEN FALSE
    ELSE IF IsErrorStatus(resp.status) THEN FALSE
    ELSE LET data == resp.body IN
         IF data.t = "text" \/ data.t = "null" THEN FALSE
         ELSE IF data.t # "obj" THEN FALSE
         ELSE IF HasKey(data, "errors") THEN FALSE
         ELSE IF /\ HasKey(data, "data")
                 /\ data.f.data.t = "obj"
                 /\ HasKey(data.f.data, "myself")
                 /\ JTruthy(data.f.data.f.myself)
              THEN data.f.data.f.myself.t = "obj"
              ELSE FALSE

\* RunPodClient.verify_api_key: TRUE when the key is taken as valid
GqlVerifyApiKey(resp) ==
    \* requests.post raised: except Exception
    IF resp.kind = "fail" THEN FALSE
    ELSE IF resp.status # 200 THEN FALSE
    ELSE LET data == resp.body IN
         \* response.json() raised, or "errors" in None raised
         IF data.t = "text" \/ data.t = "null" THEN FALSE
         \* a list or a string has neither "errors" nor "data" in it
         ELSE IF data.t # "obj" THEN FALSE
         ELSE IF HasKey(data, "errors") THEN FALSE
         ELSE IF /\ HasKey(data, "data")
                 \* "myself" in None raises
                 /\ data.f.data.t = "obj"
                 /\ HasKey(data.f.data, "myself")
                 /\ JTruthy(data.f.data.f.myself)
              \* .get('email') raises on a value that is no dict
              THEN data.f.data.f.myself.t = "obj"
              ELSE FALSE

\* RunPodRestClient.verify_api_key: TRUE when the key is taken as valid
RestVerifyApiKey(resp) ==
    IF resp.kind = "fail" THEN FALSE
    ELSE resp.status = 200

\* what the provider's answer to a request was, as the claims speak of it
VerifyAnswerClass(resp) ==
    IF resp.kind = "fail" THEN "transport"
    ELSE IF IsErrorStatus(resp.status) THEN "http_error"
    ELSE "answered"

GqlVerifyRequest(resp) ==
    [op |-> "verify", method |-> "POST", url |-> "https://api.runpod.io/graphql",
     operation |-> "query", answer |-> VerifyAnswerClass(resp)]

RestVerifyRequest(resp) ==
    [op |-> "verify", method |-> "GET", url |-> "https://rest.runpod.io/v1/pods",
     operation |-> "list", answer |-> VerifyAnswerClass(resp)]

Validity(ok) == IF ok THEN "valid" ELSE "invalid"

----------------------------------------------------------------------------
(* The two verify_api_key methods on their own *)

VerifyInit ==
    /\ args = DefaultArgs
    /\ pc \in {"RunPodClient.verify_api_key", "RunPodRestClient.verify_api_key"}
    /\ api_key = Some("rpa_test")
    /\ fmt_answer = None
    /\ confirm_answer = None
    /\ net = << >>
    /\ verified = "unknown"
    /\ pod_config = NoConfig
    /\ pod = [kind |-> "none"]
    /\ exit_code = -1
    /\ out = {}
    /\ last_resp = NoResp
    /\ loaded_env = NotLoaded

GqlVerifyCall ==
    /\ pc = "RunPodClient.verify_api_key"
    /\ \E resp \in VerifyResponses :
          /\ last_resp' = resp
          /\ net' = Append(net, GqlVerifyRequest(resp))
          /\ verified' = Validity(GqlVerifyApiKey(resp))
    /\ pc' = "RunPodClient.returned"
    /\ UNCHANGED <<loaded_env, args, api_key, fmt_answer, confirm_answer, pod_config, pod,
                   exit_code, out>>

RestVerifyCall ==
    /\ pc = "RunPodRestClient.verify_api_key"
    /\ \E resp \in VerifyResponses :
          /\ last_resp' = resp
          /\ net' = Append(net, RestVerifyRequest(resp))
          /\ verified' = Validity(RestVerifyApiKey(resp))
    /\ pc' = "RunPodRestClient.returned"
    /\ UNCHANGED <<loaded_env, args, api_key, fmt_answer, confirm_answer, pod_config, pod,
                   exit_code, out>>

VerifyNext == GqlVerifyCall \/ RestVerifyCall

SpecVerify == VerifyInit /\ [][VerifyNext]_vars

----------------------------------------------------------------------------
(* RunPodClient.query, deploy_pod_web_format, deploy_pod_multi_attempt *)

\* how a call ends: it returns v, it raises an Exception that is no
\* SystemExit, or sys.exit(1) ends the process (SystemExit is no Exception,
\* so no "except Exception" of a caller stops it)
Return(v) == [o |-> "return", v |-> v]
Raise == [o |-> "raise"]
Exit == [o |-> "exit"]

\* query with the transport failure left to the caller's except clause
QueryRaisesOnFailure(resp) ==
    IF resp.kind = "fail" THEN Raise
    ELSE IF resp.status # 200 /\ IsErrorStatus(resp.status) THEN Raise
    ELSE IF resp.body.t = "text"
         THEN IF resp.body.raises = "RequestException" THEN Exit ELSE Raise
    ELSE IF resp.body.t = "null" THEN Raise
    ELSE Return(resp.body)

\* RunPodClient.query
Query(resp) ==
    \* requests.post raised a RequestException
    IF resp.kind = "fail" THEN Exit
    \* raise_for_status() raised an HTTPError, a RequestException
    ELSE IF resp.status # 200 /\ IsErrorStatus(resp.status) THEN Exit
    \* response.json() raised
    ELSE IF resp.body.t = "text"
         THEN IF resp.body.raises = "RequestException" THEN Exit ELSE Raise
    \* "errors" in None raised a TypeError
    ELSE IF resp.body.t = "null" THEN Raise
    ELSE Return(resp.body)

\* result["data"][key] can be evaluated
HasData(result, key) ==
    /\ IsObj(result)
    /\ HasKey(result, "data")
    /\ IsObj(result.f.data)
    /\ HasKey(result.f.data, key)

\* deploy_pod_web_format with its last return lost
DeployPodWebFormatDropsResult(resp) ==
    IF Query(resp).o = "exit" THEN Exit ELSE Return(JNull)

\* RunPodClient.deploy_pod_web_format, from the call of query on
DeployPodWebFormat(resp) ==
    LET q == Query(resp) IN
    IF q.o = "exit" THEN Exit
    \* except Exception: return None
    ELSE IF q.o = "raise" THEN Return(JNull)
    ELSE LET result == q.v IN
         IF IsObj(result) /\ HasKey(result, "errors") THEN Return(JNull)
         ELSE IF HasData(result, "podDeployOnDemand")
              THEN Return(result.f.data.f.podDeployOnDemand)
              \* the lookup raised: except Exception: return None
              ELSE Return(JNull)

Next_ == [o |-> "next"]

\* an attempt that does not look for "errors" in the result
AttemptIgnoresErrors(resp, key) ==
    LET q == Query(resp) IN
    IF q.o = "exit" THEN Exit
    ELSE IF q.o = "raise" THEN Next_
    ELSE IF HasData(q.v, key) THEN Return(q.v.f.data.f[key]) ELSE Next_

\* one of the three attempts of deploy_pod_multi_attempt that follow the web
\* format, from the call of query on: the pod is returned, or the next
\* attempt is made, or the process exits
Attempt(resp, key) ==
    LET q == Query(resp) IN
    IF q.o = "exit" THEN Exit
    \* except Exception: print, go on
    ELSE IF q.o = "raise" THEN Next_
    ELSE LET result == q.v IN
         IF /\ IsObj(result)
            /\ ~HasKey(result, "errors")
            /\ HasData(result, key)
         THEN Return(result.f.data.f[key])
         ELSE Next_

\* the "input" variable of each request
WebInput(c) ==
    [ containerDiskSize |-> c.containerDiskInGb, dockerArgs |-> "", env |-> c.env,
      gpuCount |-> c.gpuCount, gpuTypeId |-> c.gpuTypeId,
      imageName |-> c.containerImageName, name |-> c.name, ports |-> c.ports,
      volumeSize |-> c.volumeInGb, volumeMountPath |-> c.volumeMountPath ]

PodGenerateInput(c) ==
    [ name |-> c.name, imageName |-> c.containerImageName, gpuCount |-> c.gpuCount,
      volumeSize |-> c.volumeInGb, containerDiskSize |-> c.containerDiskInGb,
      gpuType |-> c.gpuTypeId, env |-> c.env, ports |-> c.ports,
      volumeMountPath |-> c.volumeMountPath ]

PodDeployInput(c) ==
    [ name |-> c.name, imageName |-> c.containerImageName, gpuCount |-> c.gpuCount,
      volumeInGb |-> c.volumeInGb, containerDiskInGb |-> c.containerDiskInGb,
      gpuType |-> c.gpuTypeId, env |-> c.env, ports |-> c.ports,
      volumeMountPath |-> c.volumeMountPath ]

OnDemandInput(c) ==
    [ cloudType |-> "ALL", gpuCount |-> c.gpuCount, name |-> c.name,
      containerDiskSizeGB |-> c.containerDiskInGb, gpuType |-> c.gpuTypeId,
      volumeInGB |-> c.volumeInGb, volumeMountPath |-> c.volumeMountPath,
      containerImageName |-> c.containerImageName, env |-> c.env, ports |-> c.ports ]

\* what the provider's answer to a deployment request was, as the claims
\* speak of it
DeployAnswerClass(resp, key) ==
    IF resp.kind = "fail" THEN "transport"
    ELSE IF IsErrorStatus(resp.status) THEN "http_error"
    ELSE IF resp.body.t = "obj" /\ "errors" \in DOMAIN resp.body.f THEN "errors"
    ELSE IF /\ resp.body.t = "obj"
            /\ "data" \in DOMAIN resp.body.f
            /\ resp.body.f.data.t = "obj"
            /\ key \in DOMAIN resp.body.f.data.f
         THEN IF /\ resp.body.f.data.f[key].t = "obj"
                 /\ DOMAIN resp.body.f.data.f[key].f # {}
              THEN "pod" ELSE "no_pod"
    ELSE "malformed"

DeployRequest(shape, key, input, resp) ==
    [op |-> "deploy", method |-> "POST", url |-> "https://api.runpod.io/graphql",
     operation |-> "mutation", shape |-> shape, mutation |-> key, input |-> input,
     answer |-> DeployAnswerClass(resp, key)]

----------------------------------------------------------------------------
(* main *)

\* the answers typed at a prompt
Answers == {"y", "Y", "yes", "YES", "Yes", "n", "no", "", " y", "yeah"}

\* every answer but a no counts as a yes
AcceptsUnlessNo(ans) == Lower(ans) \notin {"n", "no"}

\* confirm.lower() in ['y', 'yes']
Accepts(ans) == Lower(ans) \in {"y", "yes"}

\* the key check without "api_key = api_key.strip()" and the test after it
CheckedApiKeyNoStrip(a) ==
    LET from_file ==
            IF ~Truthy(a.api_key) /\ a.env_file.given
            THEN LET env_vars == LoadEnvFile(a.env_file) IN
                 IF DictHas(env_vars, "RUNPOD_API_KEY")
                 THEN Some(DictValue(env_vars, "RUNPOD_API_KEY"))
                 ELSE a.api_key
            ELSE a.api_key
    IN  IF ~Truthy(from_file) THEN [ok |-> FALSE, report |-> "key_required", key |-> ""]
        ELSE [ok |-> TRUE, report |-> "", key |-> from_file.v]

\* "Check for API key in env file if not provided directly", "Verify we have
\* an API key from somewhere", "Validate API key format"
CheckedApiKey(a) ==
    LET from_file ==
            IF ~Truthy(a.api_key) /\ a.env_file.given
            THEN LET env_vars == LoadEnvFile(a.env_file) IN
                 IF DictHas(env_vars, "RUNPOD_API_KEY")
                 THEN Some(DictValue(env_vars, "RUNPOD_API_KEY"))
                 ELSE a.api_key
            ELSE a.api_key
    IN  IF ~Truthy(from_file) THEN [ok |-> FALSE, report |-> "key_required", key |-> ""]
        ELSE IF Strip(from_file.v) = ""
             THEN [ok |-> FALSE, report |-> "key_empty", key |-> ""]
             ELSE [ok |-> TRUE, report |-> "", key |-> Strip(from_file.v)]

NoPod == [kind |-> "none"]

\* the process ends with the given exit code
Ends(code, report) ==
    /\ pc' = "done"
    /\ exit_code' = code
    /\ out' = out \cup report

MainApiKeys == {None, Some(""), Some("  "), Some("rpa_key1"), Some(" rpa_key1\t"), Some("sk-abc")}

MainEnvFiles ==
    { NoFile, MissingFile,
      File(<<"RUNPOD_API_KEY=rpa_file">>),
      File(<<"# key", "RUNPOD_API_KEY = key9 ", "FOO=bar">>),
      File(<<"RUNPOD_API_KEY=">>),
      File(<<"FOO=bar", "OLLAMA_HOST=1.2.3.4">>) }

Init ==
    /\ args \in {[DefaultArgs EXCEPT !.api_key = k, !.env_file = f]
                    : k \in MainApiKeys, f \in MainEnvFiles}
    /\ pc = "main"
    /\ api_key = None
    /\ fmt_answer = None
    /\ confirm_answer = None
    /\ net = << >>
    /\ verified = "unknown"
    /\ pod_config = NoConfig
    /\ pod = NoPod
    /\ exit_code = -1
    /\ out = {}
    /\ last_resp = NoResp
    /\ loaded_env = NotLoaded

\* main, to the end of the key checks
LoadApiKey ==
    /\ pc = "main"
    /\ LET c == CheckedApiKey(args) IN
       IF c.ok
       THEN /\ api_key' = Some(c.key)
            /\ pc' = "check_format"
            /\ UNCHANGED <<exit_code, out>>
       ELSE /\ Ends(1, {c.report})
            /\ UNCHANGED api_key
    /\ loaded_env' = IF ~Truthy(args.api_key) /\ args.env_file.given
                   THEN LoadEnvFileResult(args.env_file)
                   ELSE loaded_env
    /\ UNCHANGED <<args, fmt_answer, confirm_answer, net, verified, pod_config,
                   pod, last_resp>>

\* "Check if API key looks like a valid RunPod API key"
CheckFormat ==
    /\ pc = "check_format"
    /\ IF StartsWith(api_key.v, "rpa_")
       THEN /\ pc' = "confirm"
            /\ UNCHANGED <<fmt_answer, exit_code, out>>
       ELSE \E ans \in Answers :
               /\ fmt_answer' = Some(ans)
               /\ IF Accepts(ans)
                  THEN /\ pc' = "confirm"
                       /\ out' = out \cup {"format_warning"}
                       /\ UNCHANGED exit_code
                  ELSE Ends(0, {"format_warning", "cancelled"})
    /\ UNCHANGED <<loaded_env, args, api_key, confirm_answer, net, verified, pod_config,
                   pod, last_resp>>

\* "Ask for confirmation"
Confirm ==
    /\ pc = "confirm"
    /\ \E ans \in Answers :
          /\ confirm_answer' = Some(ans)
          /\ IF Accepts(ans)
             THEN /\ pc' = "verify"
                  /\ UNCHANGED <<exit_code, out>>
             ELSE Ends(0, {"cancelled"})
    /\ UNCHANGED <<loaded_env, args, api_key, fmt_answer, net, verified, pod_config, pod,
                   last_resp>>

\* "Verify API key is valid"
Verify ==
    /\ pc = "verify"
    /\ \E resp \in VerifyResponses :
          /\ last_resp' = resp
          /\ net' = Append(net, GqlVerifyRequest(resp))
          /\ verified' = Validity(GqlVerifyApiKey(resp))
          /\ IF GqlVerifyApiKey(resp)
             THEN /\ pc' = "create_config"
                  /\ UNCHANGED <<exit_code, out>>
             ELSE Ends(1, {"invalid_key"})
    /\ UNCHANGED <<loaded_env, args, api_key, fmt_answer, confirm_answer, pod_config, pod>>

\* "Store API key in args for config creation", "Create pod configuration"
CreateConfig ==
    /\ pc = "create_config"
    /\ args' = [args EXCEPT !.api_key = api_key]
    /\ pod_config' = CreatePodConfig(args')
    /\ pc' = "deploy_web"
    /\ UNCHANGED <<loaded_env, api_key, fmt_answer, confirm_answer, net, verified, pod,
                   exit_code, out, last_resp>>

\* "Try the web-based format first"
DeployWeb ==
    /\ pc = "deploy_web"
    /\ \E resp \in DeployResponses("podDeployOnDemand") :
          LET r == DeployPodWebFormat(resp) IN
          /\ last_resp' = resp
          /\ net' = Append(net, DeployRequest("web", "podDeployOnDemand",
                                              WebInput(pod_config), resp))
          /\ IF r.o = "exit"
             THEN Ends(1, {}) /\ UNCHANGED pod
             ELSE IF JTruthy(r.v)
                  THEN /\ pod' = r.v
                       /\ pc' = "display"
                       /\ UNCHANGED <<exit_code, out>>
                  ELSE /\ pc' = "deploy_podGenerate"
                       /\ UNCHANGED <<pod, exit_code, out>>
    /\ UNCHANGED <<loaded_env, args, api_key, fmt_answer, confirm_answer, verified,
                   pod_config>>

\* one of the attempts after the web format; when it is the last and fails,
\* "All deployment attempts failed" and sys.exit(1)
TryShape(at, key, input, next) ==
    /\ pc = at
    /\ \E resp \in DeployResponses(key) :
          LET r == Attempt(resp, key) IN
          /\ last_resp' = resp
          /\ net' = Append(net, DeployRequest(key, key, input, resp))
          /\ IF r.o = "exit"
             THEN Ends(1, {}) /\ UNCHANGED pod
             ELSE IF r.o = "return"
                  THEN /\ pod' = r.v
                       /\ pc' = "display"
                       /\ UNCHANGED <<exit_code, out>>
                  ELSE IF next = "exit"
                       THEN Ends(1, {"all_failed"}) /\ UNCHANGED pod
                       ELSE /\ pc' = next
                            /\ UNCHANGED <<pod, exit_code, out>>
    /\ UNCHANGED <<loaded_env, args, api_key, fmt_answer, confirm_answer, verified,
                   pod_config>>

\* "Try podGenerate"
DeployPodGenerate ==
    TryShape("deploy_podGenerate", "podGenerate", PodGenerateInput(pod_config),
             "deploy_podDeploy")

\* "If that fails, try podDeploy"
DeployPodDeploy ==
    TryShape("deploy_podDeploy", "podDeploy", PodDeployInput(pod_config),
             "deploy_podDeployOnDemand")

\* "Final attempt: podDeployOnDemand", "If all attempts fail"
DeployOnDemand ==
    TryShape("deploy_podDeployOnDemand", "podDeployOnDemand",
             OnDemandInput(pod_config), "exit")

\* display_pod_info(pod, args), then main returns; pod.get raises an
\* AttributeError on None, after the heading has been printed, and the
\* traceback ends the process with exit code 1
Display ==
    /\ pc = "display"
    /\ IF IsObj(pod)
       THEN Ends(0, {"display_pod_info", "pod_info"})
       ELSE Ends(1, {"display_pod_info", "traceback"})
    /\ UNCHANGED <<loaded_env, args, api_key, fmt_answer, confirm_answer, net, verified,
                   pod_config, pod, last_resp>>

Next ==
    \/ LoadApiKey
    \/ CheckFormat
    \/ Confirm
    \/ Verify
    \/ CreateConfig
    \/ DeployWeb
    \/ DeployPodGenerate
    \/ DeployPodDeploy
    \/ DeployOnDemand
    \/ Display

Spec == Init /\ [][Next]_vars

----------------------------------------------------------------------------
(* Claims about a run of main (checked under Spec) *)

\* the deployment requests sent so far, oldest first
Deploys == SelectSeq(net, LAMBDA r : r.op = "deploy")

NoDeploy == \A i \in 1..Len(net) : net[i].op # "deploy"

ExitedWith(code) == pc = "done" /\ exit_code = code

\* C2: when the credential verification fails (verify_api_key says invalid;
\* the request failed or was answered with an error status such as 401) the
\* process has ended with exit code 1 and no deployment request of any
\* shape has been sent; a deployment request is only sent after a
\* verification that succeeded.
C2_NoDeployAfterFailedVerification ==
    /\ verified = "invalid" => (ExitedWith(1) /\ NoDeploy)
    /\ (\E i \in 1..Len(net) :
            net[i].op = "verify" /\ net[i].answer \in {"transport", "http_error"})
        => (ExitedWith(1) /\ NoDeploy)
    /\ ~NoDeploy => verified = "valid"

\* the verification was answered 401 and the process has ended
C2_Witness ==
    /\ last_resp.kind = "answer"
    /\ last_resp.status = 401
    /\ verified = "invalid"
    /\ pc = "done"

\* no credential from the flag or the env file, or one that is empty once
\* its whitespace is trimmed
CredentialMissing ==
    LET flag == args.api_key
        file == LoadEnvFile(args.env_file)
        cred == IF flag.some /\ flag.v # "" THEN flag
                ELSE IF args.env_file.given /\ DictHas(file, "RUNPOD_API_KEY")
                     THEN Some(DictValue(file, "RUNPOD_API_KEY"))
                     ELSE None
    IN  \/ ~cred.some
        \/ \A i \in 1..Len(cred.v) : Ch(cred.v, i) \in {" ", "\t"}

\* C3: when no credential is available from the flag or the env file, or the
\* credential is empty after trimming, the process ends with exit code 1 at
\* its first step and no network request is ever made.
C3_NoCredentialNoNetwork ==
    CredentialMissing =>
        /\ pc = "main" \/ ExitedWith(1)
        /\ net = << >>

\* the flag is blank, the env file has a key: the blank flag is the
\* credential, and the process has ended with "API key is empty"
C3_Witness ==
    /\ args.api_key = Some("  ")
    /\ args.env_file = File(<<"RUNPOD_API_KEY=rpa_file">>)
    /\ ExitedWith(1)
    /\ "key_empty" \in out

ShapeOrder == <<"web", "podGenerate", "podDeploy", "podDeployOnDemand">>

MutationOrder == <<"podDeployOnDemand", "podGenerate", "podDeploy", "podDeployOnDemand">>

\* the value under data.<mutation> of an answer
PodOf(resp, key) == resp.body.f.data.f[key]

\* the requests follow the fixed order, each shape at most once
InFixedOrder ==
    /\ Len(Deploys) <= 4
    /\ \A i \in 1..Len(Deploys) :
          /\ Deploys[i].shape = ShapeOrder[i]
          /\ Deploys[i].mutation = MutationOrder[i]

\* the request answered with one of the given classes is the last request
\* sent and its value is the result
AcceptedWhen(classes) ==
    \A i \in 1..Len(Deploys) :
        Deploys[i].answer \in classes =>
            /\ i = Len(Deploys)
            /\ net[Len(net)] = Deploys[i]
            /\ pc \in {"display", "done"}
            /\ pod = PodOf(last_resp, Deploys[i].mutation)

\* C4 as amended: the request shapes are submitted in one fixed order
\* (web-interface podDeployOnDemand, podGenerate, podDeploy,
\* podDeployOnDemand), each at most once per run and a shape only after
\* every earlier shape was answered without a pod record; the first shape
\* whose response carries no error and a non-empty pod record under its
\* mutation key is accepted as the result and no further deployment request
\* is sent after it.  (A response of the web-interface shape that carries no
\* error and a null or empty pod counts as a failure of that shape.)
C4_FixedOrderFirstPodAccepted ==
    /\ InFixedOrder
    /\ \A i \in 1..(Len(Deploys) - 1) :
          Deploys[i].answer \in {"errors", "no_pod", "malformed"}
    /\ AcceptedWhen({"pod"})
    /\ pod # NoPod => (Deploys # << >> /\ Deploys[Len(Deploys)].answer \in {"pod", "no_pod"})

\* the third shape was answered with a pod after two failures
C4_Witness ==
    /\ Len(Deploys) = 3
    /\ Deploys[1].answer = "no_pod"
    /\ Deploys[2].answer = "errors"
    /\ Deploys[3].answer = "pod"
    /\ pod = PodRecord

\* C4 as stated: ... the first shape whose response carries no error is
\* accepted as the result and no further deployment request is sent after
\* it.
C4_AsStated ==
    /\ InFixedOrder
    /\ AcceptedWhen({"pod", "no_pod"})

\* C5: when each of the four request shapes was answered with a remote
\* error, the process has reported that all attempts failed and has ended
\* with exit code 1, and display_pod_info was never invoked.
C5_AllErrorsExit1 ==
    (/\ Len(Deploys) = 4
     /\ \A i \in 1..4 : Deploys[i].answer = "errors")
    => /\ ExitedWith(1)
       /\ "all_failed" \in out
       /\ "display_pod_info" \notin out
       /\ pod = NoPod

C5_Witness ==
    /\ Len(Deploys) = 4
    /\ \A i \in 1..4 : Deploys[i].answer = "errors"
    /\ pc = "done"

\* C6: a deployment request that met a transport failure is the last
\* request of the run (it is not sent again and no other shape follows), and
\* the process has ended with exit code 1 without a result.
C6_TransportFailureFatal ==
    \A i \in 1..Len(net) :
        (net[i].op = "deploy" /\ net[i].answer = "transport") =>
            /\ i = Len(net)
            /\ ExitedWith(1)
            /\ "display_pod_info" \notin out
            /\ pod = NoPod

\* the second shape timed out
C6_Witness ==
    /\ Len(Deploys) = 2
    /\ Deploys[2].answer = "transport"
    /\ last_resp = Failure("Timeout")

\* 'y' or 'yes' in any case
SaysYes(ans) ==
    ans \in {"y", "Y", "yes", "yeS", "yEs", "yES", "Yes", "YeS", "YEs", "YES"}

\* C7: a deployment request is only sent after the answer 'y' or 'yes' (in
\* any case) at the confirmation prompt; any other answer at that prompt or
\* at the prompt about the form of the API key ends the run with exit code 0
\* and no network request at all.
C7_DeployOnlyAfterYes ==
    /\ ~NoDeploy => (confirm_answer.some /\ SaysYes(confirm_answer.v))
    /\ (confirm_answer.some /\ ~SaysYes(confirm_answer.v))
          => (ExitedWith(0) /\ net = << >>)
    /\ (fmt_answer.some /\ ~SaysYes(fmt_answer.v))
          => (ExitedWith(0) /\ net = << >> /\ ~confirm_answer.some)

\* a deployment request was sent after "Y" and "YES"
C7_Witness ==
    /\ ~NoDeploy
    /\ fmt_answer = Some("Y")
    /\ confirm_answer = Some("YES")

----------------------------------------------------------------------------
(* Claims about create_pod_config (checked under SpecConfig) *)

ConfigBuilt == pod_config # NoConfig

\* the values of the entries of env whose key is k, in order
ValuesOf(env, k) ==
    LET hits == SelectSeq(env, LAMBDA e : e.key = k)
    IN  [i \in 1..Len(hits) |-> hits[i].value]

\* C1: in the env list built by create_pod_config every reserved key has
\* exactly the entry made from the flags (PRELOAD_MODELS: none when the flag
\* is not given); a line of the env file with the same key neither replaces
\* it nor adds a second entry, wherever the line stands in the file.
C1_ReservedKeysFromFlags ==
    ConfigBuilt =>
        /\ ValuesOf(pod_config.env, "OLLAMA_HOST") = <<args.ollama_host>>
        /\ ValuesOf(pod_config.env, "INACTIVITY_TIMEOUT") = <<IntToStr(args.timeout)>>
        /\ ValuesOf(pod_config.env, "RUNPOD_API_KEY") = <<args.api_key.v>>
        /\ ValuesOf(pod_config.env, "LOG_LEVEL") = <<args.log_level>>
        /\ ValuesOf(pod_config.env, "PRELOAD_MODELS") =
              IF args.preload_models.some /\ args.preload_models.v # ""
              THEN <<args.preload_models.v>> ELSE << >>

\* a config built from a file whose last line sets a reserved key to another
\* value than the flag, after a line of an ordinary key
C1_Witness ==
    /\ ConfigBuilt
    /\ args.env_file.lines = <<"FOO=bar", "OLLAMA_HOST=1.2.3.4">>
    /\ args.ollama_host # "1.2.3.4"
    /\ args.preload_models = None

\* C8 as amended: GPU identifier normalization is a chain of rules, the
\* first that applies deciding: (1) an identifier containing "RTX 6000 Ada"
\* and not "Generation" becomes "NVIDIA RTX 6000 Ada Generation", also when
\* it starts with "NVIDIA "; (2) otherwise an identifier without the
\* "NVIDIA " prefix that is not A100, A40 or V100 gets "NVIDIA " prepended;
\* (3) otherwise it is passed through unchanged.
C8_GpuNormalizationChain ==
    ConfigBuilt =>
        LET g == args.gpu_type
            r == pod_config.gpuTypeId
            ada == Contains(g, "RTX 6000 Ada") /\ ~Contains(g, "Generation")
            bare == ~StartsWith(g, "NVIDIA ") /\ g \notin {"A100", "A40", "V100"}
        IN  /\ ada => r = "NVIDIA RTX 6000 Ada Generation"
            /\ (~ada /\ bare) => r = "NVIDIA " \o g
            /\ (~ada /\ ~bare) => r = g

\* the identifier "NVIDIA RTX 6000 Ada", prefixed already, is rewritten
C8_Witness ==
    /\ ConfigBuilt
    /\ args.gpu_type = "NVIDIA RTX 6000 Ada"
    /\ pod_config.gpuTypeId = "NVIDIA RTX 6000 Ada Generation"

\* C8 as stated: the three rules as independent statements (the second read
\* after the first): every identifier that starts with "NVIDIA " and every
\* identifier of the exception list is passed through unchanged.
C8_AsStated ==
    ConfigBuilt =>
        LET g == args.gpu_type
            r == pod_config.gpuTypeId
            ada == Contains(g, "RTX 6000 Ada") /\ ~Contains(g, "Generation")
        IN  /\ ada => r = "NVIDIA RTX 6000 Ada Generation"
            /\ (~ada /\ ~StartsWith(g, "NVIDIA ") /\ g \notin {"A100", "A40", "V100"})
                  => r = "NVIDIA " \o g
            /\ (StartsWith(g, "NVIDIA ") \/ g \in {"A100", "A40", "V100"}) => r = g

\* the flags --api-key rpa_test --gpu-type A40 --timeout 120 with an empty
\* env file
C9_Scenario ==
    /\ args.api_key = Some("rpa_test")
    /\ args.gpu_type = "A40"
    /\ args.timeout = 120
    /\ args.env_file = File(<< >>)

\* C9 as amended: with flags --api-key rpa_test --gpu-type A40 --timeout 120
\* and an empty env file the request body has the env entry
\* INACTIVITY_TIMEOUT with the string value "120" and the GPU field "A40",
\* unchanged, A40 being one of the identifiers that get no prefix.
C9_ScenarioBody ==
    (ConfigBuilt /\ C9_Scenario) =>
        /\ ValuesOf(pod_config.env, "INACTIVITY_TIMEOUT") = <<"120">>
        /\ pod_config.gpuTypeId = "A40"

C9_Witness == ConfigBuilt /\ C9_Scenario /\ pod_config.gpuTypeId = "A40"

\* C9 as stated: in that scenario the body has INACTIVITY_TIMEOUT = "120"
\* and the GPU field "NVIDIA A40".
C9_AsStated ==
    (ConfigBuilt /\ C9_Scenario) =>
        /\ ValuesOf(pod_config.env, "INACTIVITY_TIMEOUT") = <<"120">>
        /\ pod_config.gpuTypeId = "NVIDIA A40"

----------------------------------------------------------------------------
(* Claims about credential verification (checked under SpecVerify) *)

VerifyReturned == pc \in {"RunPodClient.returned", "RunPodRestClient.returned"}

\* the one request of a verification, and that it reads only: a GET, or a
\* POST carrying a GraphQL query (no mutation)
OneReadOnlyRequest ==
    /\ Len(net) = 1
    /\ net[1].op = "verify"
    /\ \/ net[1].method = "GET"
       \/ net[1].method = "POST" /\ net[1].operation = "query"

\* the body of a successful "myself" query: an object without "errors" whose
\* "data" object holds a non-empty user object under "myself"
HoldsUser(body) ==
    /\ body.t = "obj"
    /\ "errors" \notin DOMAIN body.f
    /\ "data" \in DOMAIN body.f
    /\ body.f.data.t = "obj"
    /\ "myself" \in DOMAIN body.f.data.f
    /\ body.f.data.f.myself.t = "obj"
    /\ DOMAIN body.f.data.f.myself.f # {}

\* C10 as amended: each verify_api_key makes exactly one read-only request.
\* RunPodRestClient takes the credential as valid exactly when the answer has
\* status 200 (the body is not looked at).  RunPodClient takes it as valid
\* exactly when the answer has status 200 and its body is a JSON object
\* without "errors" that holds a non-empty user object under data.myself.
\* Every other answer (any other status, also a non-error one such as 201,
\* and a 200 whose body holds errors or no user) and a failed request make
\* the credential invalid.
C10_VerifyStatus200 ==
    /\ ~VerifyReturned => net = << >>
    /\ VerifyReturned =>
        /\ OneReadOnlyRequest
        /\ verified \in {"valid", "invalid"}
        /\ pc = "RunPodRestClient.returned" =>
              (verified = "valid" <=> (last_resp.kind = "answer" /\ last_resp.status = 200))
        /\ pc = "RunPodClient.returned" =>
              (verified = "valid" <=>
                  /\ last_resp.kind = "answer"
                  /\ last_resp.status = 200
                  /\ HoldsUser(last_resp.body))

\* RunPodClient was answered 200 with a well-formed body that holds no user,
\* and took the credential as invalid
C10_Witness ==
    /\ pc = "RunPodClient.returned"
    /\ last_resp = Answer(200, JObj([data |-> JObj([myself |-> JNull])]))
    /\ verified = "invalid"

\* a body of the expected form: a JSON object without "errors" whose "data"
\* object has the key "myself"
WellFormed(body) ==
    /\ body.t = "obj"
    /\ "errors" \notin DOMAIN body.f
    /\ "data" \in DOMAIN body.f
    /\ body.f.data.t = "obj"
    /\ "myself" \in DOMAIN body.f.data.f

\* C10 as stated: one read-only request; the credential is valid whenever
\* the answer has a non-error status and a well-formed body, and invalid
\* when the status is an error status or the request failed.
C10_AsStated ==
    VerifyReturned =>
        /\ OneReadOnlyRequest
        /\ (/\ last_resp.kind = "answer"
            /\ last_resp.status < 400
            /\ WellFormed(last_resp.body)) => verified = "valid"
        /\ (last_resp.kind = "fail" \/ last_resp.status >= 400) => verified = "invalid"

----------------------------------------------------------------------------
(* Claims about load_env_file (checked under SpecLoad) *)

\* a line that is not blank, no comment and has a '=' (the line stripped)
IsAssignment(raw) ==
    LET l == Strip(raw) IN
    /\ l # ""
    /\ SubSeq(l, 1, 1) # "#"
    /\ \E i \in 1..Len(l) : SubSeq(l, i, i) = "="

\* the place of the first '=' of s
FirstEq(s) ==
    CHOOSE i \in 1..Len(s) :
        /\ SubSeq(s, i, i) = "="
        /\ \A j \in 1..(i - 1) : SubSeq(s, j, j) # "="

\* the entry of an assignment line: the line split at its first '=', both
\* parts stripped
EntryOf(raw) ==
    LET l == Strip(raw) IN
    [key   |-> Strip(SubSeq(l, 1, FirstEq(l) - 1)),
     value |-> Strip(SubSeq(l, FirstEq(l) + 1, Len(l)))]

\* d holds exactly the entries of the assignment lines among lines (of two
\* lines with one key the later one counts), and nothing else
HoldsEntriesOf(d, lines) ==
    LET assigning == {i \in 1..Len(lines) : IsAssignment(lines[i])}
        last == {i \in assigning :
                    \A j \in assigning : j > i => EntryOf(lines[j]).key # EntryOf(lines[i]).key}
    IN  /\ {d[i] : i \in 1..Len(d)} = {EntryOf(lines[i]) : i \in last}
        /\ Len(d) = Cardinality(last)

LoadedFile == args.env_file.given /\ args.env_file.exists

\* C11 as amended: for every env file load_env_file returns without raising.
\* Blank lines, lines starting with '#' and lines without '=' contribute no
\* entry.  When the file is read to its end, every other line contributes
\* exactly the entry obtained by splitting it on its first '=' (key and value
\* stripped), so a value may itself contain '='.  When reading the file
\* raises (bytes that do not decode, an I/O error), only the lines read
\* before that contribute, the rest of the file contributes nothing, and a
\* warning is printed.
C11_LoadReturnsEntriesRead ==
    pc # "load_env_file" =>
        /\ loaded_env.o = "return"
        /\ pc = "loaded"
        /\ ~LoadedFile => loaded_env.v = << >>
        /\ (LoadedFile /\ args.env_file.fails = 0) =>
              (HoldsEntriesOf(loaded_env.v, args.env_file.lines) /\ ~loaded_env.warning)
        /\ (LoadedFile /\ args.env_file.fails # 0) =>
              /\ HoldsEntriesOf(loaded_env.v,
                       SubSeq(args.env_file.lines, 1, args.env_file.fails - 1))
              /\ loaded_env.warning

\* reading fails at the second line: the first line's entry, whose value
\* holds a '=', is returned and the second line's is not
C11_Witness ==
    /\ pc = "loaded"
    /\ args.env_file = FailingFile(<<"A = b = c ", "FOO=bar">>, 2)
    /\ loaded_env.v = << [key |-> "A", value |-> "b = c"] >>

\* C11 as stated: for every env-file content load_env_file returns without
\* raising, and every line that is not blank, no comment and has a '='
\* contributes its entry.
C11_AsStated ==
    pc # "load_env_file" =>
        /\ loaded_env.o = "return"
        /\ LoadedFile => HoldsEntriesOf(loaded_env.v, args.env_file.lines)

----------------------------------------------------------------------------
(* Claims about the env list of the request body (checked under SpecConfig) *)

\* the lines of the env file that load_env_file gets to read
LinesRead ==
    IF ~(args.env_file.given /\ args.env_file.exists) THEN << >>
    ELSE IF args.env_file.fails = 0 THEN args.env_file.lines
    ELSE SubSeq(args.env_file.lines, 1, args.env_file.fails - 1)

EnvKeys == {pod_config.env[i].key : i \in 1..Len(pod_config.env)}

\* the keys are unique, so that the mapping the REST client makes of the
\* list has every item of it; the four required keys are there; every key of
\* the env file that is not reserved is there once, with the value of the
\* last line that sets it
UniqueRequiredAndPassedThrough ==
    /\ \A i, j \in 1..Len(pod_config.env) :
          pod_config.env[i].key = pod_config.env[j].key => i = j
    /\ EnvDict(pod_config.env) = pod_config.env
    /\ {"OLLAMA_HOST", "INACTIVITY_TIMEOUT", "RUNPOD_API_KEY", "LOG_LEVEL"} \subseteq EnvKeys
    /\ \A i \in 1..Len(LinesRead) :
          (/\ IsAssignment(LinesRead[i])
           /\ EntryOf(LinesRead[i]).key \notin
                 {"OLLAMA_HOST", "INACTIVITY_TIMEOUT", "RUNPOD_API_KEY", "LOG_LEVEL",
                  "PRELOAD_MODELS"})
          => LET k == EntryOf(LinesRead[i]).key
                 last == CHOOSE j \in i..Len(LinesRead) :
                            /\ IsAssignment(LinesRead[j]) /\ EntryOf(LinesRead[j]).key = k
                            /\ \A n \in (j + 1)..Len(LinesRead) :
                                  ~(IsAssignment(LinesRead[n]) /\ EntryOf(LinesRead[n]).key = k)
             IN  ValuesOf(pod_config.env, k) = <<EntryOf(LinesRead[last]).value>>

\* C12 as amended: in every request body built by create_pod_config the
\* environment variable keys are unique (a key repeated in the env file
\* appears once, with the value of its last line), the keys OLLAMA_HOST,
\* INACTIVITY_TIMEOUT, RUNPOD_API_KEY and LOG_LEVEL are always present,
\* PRELOAD_MODELS is present exactly when the preload-models flag was given
\* with a non-empty value, and every non-reserved key that load_env_file read
\* from the env file is passed through.
C12_EnvKeys ==
    ConfigBuilt =>
        /\ UniqueRequiredAndPassedThrough
        /\ "PRELOAD_MODELS" \in EnvKeys
              <=> (args.preload_models.some /\ args.preload_models.v # "")

\* a key set twice in the file, the preload flag given
C12_Witness ==
    /\ ConfigBuilt
    /\ args.env_file = File(<<"FOO=bar", "FOO=a=b">>)
    /\ args.preload_models = Some("mistral,llama2")
    /\ ValuesOf(pod_config.env, "FOO") = <<"a=b">>
    /\ "PRELOAD_MODELS" \in EnvKeys

\* C12 as stated: ... PRELOAD_MODELS is present exactly when the
\* preload-models flag was given ...
C12_AsStated ==
    ConfigBuilt =>
        /\ UniqueRequiredAndPassedThrough
        /\ "PRELOAD_MODELS" \in EnvKeys <=> args.preload_models.some

----------------------------------------------------------------------------
(* Claims about the result handed to display_pod_info (checked under Spec) *)

\* C13: deploy_pod_multi_attempt never hands a null result to its caller:
\* whenever main goes on to display_pod_info, and whenever display_pod_info
\* was invoked, the result is a pod record, also when a shape's answer had no
\* errors and a null value under its mutation key; display_pod_info then
\* does not fail.
C13_DisplayOnlyWithPodRecord ==
    /\ pc = "display" => (pod # JNull /\ IsObj(pod))
    /\ "display_pod_info" \in out =>
          /\ IsObj(pod)
          /\ "traceback" \notin out
          /\ exit_code = 0

====
